---- MODULE Spec2Model ----
(***************************************************************************)
(* Sparse matrix multiply (CSR x CCS -> CSR) and the dense triple-loop     *)
(* multiply, modelled as state machines over an explicit heap.             *)
(*                                                                         *)
(* Memory.  A heap block is a record [cap, mem, spill]: cap is the number  *)
(* of int-sized cells Malloc was asked for, mem maps the cells that have   *)
(* been written (indices inside 0..cap-1) to their contents, and spill     *)
(* maps indices outside the block to what an out-of-bounds write put       *)
(* there.  A read of a cell that is outside the block or was never written *)
(* is undefined behaviour: it yields any value of Garbage, or the value an *)
(* earlier out-of-bounds write left at that index.  Arrays are 0-based as  *)
(* in the C source.  A struct is a block whose cells are its fields in     *)
(* declaration order.                                                      *)
(***************************************************************************)
EXTENDS Integers, Sequences, FiniteSets, TLC

\* ---------------------------------------------------------------- bounds
MaxRows == 2
MaxInner == 2
MaxCols == 2
MaxNnz == 2

\* Non-zero values the left and right operands are drawn from.  They allow a
\* dot product that cancels to zero (2*1 + (-1)*2) and one that cancels only
\* partly (2*1 + (-1)*1).
XVals == {-1, 2}
YVals == {1, 2}

\* What an undefined read may yield (besides a spilled value).
Garbage == (0 - 1) .. MaxNnz

EXIT_FAILURE == 1

MismatchMsg == "Matrix sizes are incompatible for multiplication.\n"

\* ------------------------------------------------------------------ heap
Block(n) == [cap |-> n, mem |-> <<>>, spill |-> <<>>]

\* Malloc on success: the heap with a fresh uninitialised block of n cells
\* appended; the block's address is Len(h) + 1.
Malloc(h, n) == Append(h, Block(n))

InBlock(b, i) == i \in 0 .. (b.cap - 1)

Defined(b, i) == i \in DOMAIN b.mem

\* b[i] = v on a block
StoreB(b, i, v) ==
  IF InBlock(b, i)
    THEN [b EXCEPT !.mem = (i :> v) @@ b.mem]
    ELSE [b EXCEPT !.spill = (i :> v) @@ b.spill]

\* the values a read of b[i] may yield
LoadB(b, i) ==
  IF Defined(b, i)
    THEN {b.mem[i]}
    ELSE Garbage \cup (IF i \in DOMAIN b.spill THEN {b.spill[i]} ELSE {})

\* p[i] = v through a pointer p into heap h
Store(h, p, i, v) == [h EXCEPT ![p] = StoreB(h[p], i, v)]

Load(h, p, i) == LoadB(h[p], i)

\* p[0 .. Len(s)-1] = s[1 .. Len(s)], one assignment after the other
RECURSIVE Fill(_, _, _, _)
Fill(h, p, s, n) ==
  IF n = 0 THEN h ELSE Store(Fill(h, p, s, n - 1), p, n - 1, s[n])

\* ---------------------------------------------------------------- structs
\* struct CSR_Matrix { int *val; int *col_ind; int *row_ptr; int num_rows;
\* int num_cols; } and struct CCS_Matrix { val; row_ind; col_ptr; num_rows;
\* num_cols; }: field k of the struct at address R is cell k of its block.
val(h, R) == h[R].mem[0]
col_ind(h, R) == h[R].mem[1]
row_ptr(h, R) == h[R].mem[2]
row_ind(h, R) == h[R].mem[1]
col_ptr(h, R) == h[R].mem[2]
num_rows(h, R) == h[R].mem[3]
num_cols(h, R) == h[R].mem[4]

\* init_CSR_matrix: four Mallocs, then the two dimension fields
init_CSR_matrix(h, num_val, n_rows, n_cols) ==
  LET R == Len(h) + 1
      h1 == Malloc(h, 5)
      h2 == Store(Malloc(h1, num_val), R, 0, Len(h1) + 1)
      h3 == Store(Malloc(h2, num_val), R, 1, Len(h2) + 1)
      h4 == Store(Malloc(h3, n_rows + 1), R, 2, Len(h3) + 1)
  IN Store(Store(h4, R, 3, n_rows), R, 4, n_cols)

\* init_CCS_matrix: as above; col_ptr is allocated with num_rows + 1 cells
init_CCS_matrix(h, num_val, n_rows, n_cols) ==
  LET R == Len(h) + 1
      h1 == Malloc(h, 5)
      h2 == Store(Malloc(h1, num_val), R, 0, Len(h1) + 1)
      h3 == Store(Malloc(h2, num_val), R, 1, Len(h2) + 1)
      h4 == Store(Malloc(h3, n_rows + 1), R, 2, Len(h3) + 1)
  IN Store(Store(h4, R, 3, n_rows), R, 4, n_cols)

\* init_2d_array: a block of row pointers and one block per row
RECURSIVE init_2d_rows(_, _, _, _)
init_2d_rows(h, R, i, n_cols) ==
  IF i = 0 THEN h
  ELSE LET g == init_2d_rows(h, R, i - 1, n_cols)
       IN Store(Malloc(g, n_cols), R, i - 1, Len(g) + 1)

init_2d_array(h, n_rows, n_cols) ==
  init_2d_rows(Malloc(h, n_rows), Len(h) + 1, n_rows, n_cols)

\* ------------------------------------------------------ building operands
\* A dense m x k matrix is a function D with D[r][c] for r in 0..m-1 and c
\* in 0..k-1.  The operands are populated entry by entry as main does.
Cells(m, k) == (0 .. (m - 1)) \X (0 .. (k - 1))

NzCells(D, m, k) == {c \in Cells(m, k) : D[c[1]][c[2]] # 0}

DenseSet(m, k, Vals) ==
  {D \in [0 .. (m - 1) -> [0 .. (k - 1) -> Vals \cup {0}]] :
     Cardinality(NzCells(D, m, k)) <= MaxNnz}

\* position of cell c among the non-zero cells, rows first / columns first
RankRowMajor(D, m, k, c) ==
  Cardinality({d \in NzCells(D, m, k) :
                 d[1] < c[1] \/ (d[1] = c[1] /\ d[2] < c[2])})

RankColMajor(D, m, k, c) ==
  Cardinality({d \in NzCells(D, m, k) :
                 d[2] < c[2] \/ (d[2] = c[2] /\ d[1] < c[1])})

\* X = init_CSR_matrix(nnz, m, k); X->val[..] = ..; X->col_ind[..] = ..;
\* X->row_ptr[..] = ..
new_CSR(h, D, m, k) ==
  LET nz == NzCells(D, m, k)
      n == Cardinality(nz)
      at(p) == CHOOSE c \in nz : RankRowMajor(D, m, k, c) = p - 1
      R == Len(h) + 1
      h0 == init_CSR_matrix(h, n, m, k)
      h1 == Fill(h0, val(h0, R), [p \in 1 .. n |-> D[at(p)[1]][at(p)[2]]], n)
      h2 == Fill(h1, col_ind(h0, R), [p \in 1 .. n |-> at(p)[2]], n)
  IN Fill(h2, row_ptr(h0, R),
          [p \in 1 .. (m + 1) |-> Cardinality({c \in nz : c[1] < p - 1})], m + 1)

\* Y = init_CCS_matrix(nnz, m, k); Y->val[..] = ..; Y->row_ind[..] = ..;
\* Y->col_ptr[0 .. k] = ..
new_CCS(h, D, m, k) ==
  LET nz == NzCells(D, m, k)
      n == Cardinality(nz)
      at(p) == CHOOSE c \in nz : RankColMajor(D, m, k, c) = p - 1
      R == Len(h) + 1
      h0 == init_CCS_matrix(h, n, m, k)
      h1 == Fill(h0, val(h0, R), [p \in 1 .. n |-> D[at(p)[1]][at(p)[2]]], n)
      h2 == Fill(h1, row_ind(h0, R), [p \in 1 .. n |-> at(p)[1]], n)
  IN Fill(h2, col_ptr(h0, R),
          [p \in 1 .. (k + 1) |-> Cardinality({c \in nz : c[2] < p - 1})], k + 1)

\* R = init_2d_array(m, k); R[r][c] = D[r][c] for every cell
RECURSIVE fill_2d_array(_, _, _, _, _)
fill_2d_array(h, R, D, r, k) ==
  IF r = 0 THEN h
  ELSE LET g == fill_2d_array(h, R, D, r - 1, k)
       IN Fill(g, g[R].mem[r - 1], [p \in 1 .. k |-> D[r - 1][p - 1]], k)

new_2d_array(h, D, m, k) ==
  fill_2d_array(init_2d_array(h, m, k), Len(h) + 1, D, m, k)

\* ------------------------------------------------------------------ state
VARIABLES
  prog,               \* which program runs: "sparse" or "dense"
  pc,                 \* position in the multiply, "done" once it has returned,
                      \* "exit" once the process has called exit()
  heap,               \* Malloc'ed blocks, by address
  X, Y, Z,            \* the operands and the result (addresses; 0 before return)
  args,               \* x_rows, x_cols, y_rows, y_cols of matrix_multiply
  z_rows, z_cols,
  z_val, z_col_ind, z_row_ptr,   \* the stack arrays of sparse_matrix_multiply
  z_val_count, cur_z_row, cur_row_val_count, cur_z_col,
  dot_product, y_row, x_col,
  fill_i,             \* the index i of the two copy loops
  stderr,             \* messages written to stderr
  exit_status,        \* <<>> while the process runs, <<code>> after exit()
  oob                 \* the arrays accessed outside their bounds so far

locals == <<z_rows, z_cols, z_val, z_col_ind, z_row_ptr, z_val_count, cur_z_row,
            cur_row_val_count, cur_z_col, dot_product, y_row, x_col, fill_i>>

vars == <<prog, pc, heap, X, Y, Z, args, locals, stderr, exit_status, oob>>

NoArgs == [x_rows |-> 0, x_cols |-> 0, y_rows |-> 0, y_cols |-> 0]

\* everything but the operands, before the call
InitRest ==
  /\ pc = "start"
  /\ Z = 0
  /\ z_rows = 0 /\ z_cols = 0
  /\ z_val = Block(0) /\ z_col_ind = Block(0) /\ z_row_ptr = Block(0)
  /\ z_val_count = 0 /\ cur_z_row = 0 /\ cur_row_val_count = 0 /\ cur_z_col = 0
  /\ dot_product = 0 /\ y_row = 0 /\ x_col = 0 /\ fill_i = 0
  /\ stderr = <<>>
  /\ exit_status = <<>>
  /\ oob = {}

Init ==
  \E m \in 1 .. MaxRows, k \in 1 .. MaxInner, k2 \in 1 .. MaxInner, n \in 1 .. MaxCols :
    \E DX \in DenseSet(m, k, XVals), DY \in DenseSet(k2, n, YVals) :
      /\ \/ /\ prog = "sparse"
            /\ heap = new_CCS(new_CSR(<<>>, DX, m, k), DY, k2, n)
            /\ X = 1
            /\ Y = 5
            /\ args = NoArgs
         \/ /\ prog = "dense"
            /\ heap = new_2d_array(new_2d_array(<<>>, DX, m, k), DY, k2, n)
            /\ X = 1
            /\ Y = m + 2
            /\ args = [x_rows |-> m, x_cols |-> k, y_rows |-> k2, y_cols |-> n]
      /\ InitRest

\* ----------------------------------------------- sparse_matrix_multiply
\* Variants of the definitions below, each with one slip; every property is
\* required to tell the code from its variant.
scratch_cells_one_short(rows, cols) == rows * cols - 1

\* int z_val[z_rows * z_cols]; int z_col_ind[z_rows * z_cols];
scratch_cells(rows, cols) == rows * cols

advance_past_match(r, c, y, e) == r <= c /\ y < e

\* Y->row_ind[y_row] < X->col_ind[x_col] && y_row < Y->col_ptr[cur_z_col + 1]
advance(r, c, y, e) == r < c /\ y < e

keep_positive(d) == d > 0

\* if (dot_product != 0)
keep(d) == d # 0

next_row_ptr_not_cumulative(p, count) == count

\* z_row_ptr[cur_z_row] + cur_row_val_count
next_row_ptr(p, count) == p + count

\* the name of an array when index i is outside block b, for the oob history
Outside(b, i, name) == IF InBlock(b, i) THEN {} ELSE {name}

\* the check placed after the declarations of the scratch arrays
Mismatch_after_declarations ==
  /\ prog = "sparse"
  /\ pc = "start"
  /\ num_cols(heap, X) # num_rows(heap, Y)
  /\ z_rows' = num_rows(heap, X)
  /\ z_cols' = num_cols(heap, Y)
  /\ z_val' = Block(z_rows' * z_cols')
  /\ z_col_ind' = Block(z_rows' * z_cols')
  /\ z_row_ptr' = Block(z_rows' + 1)
  /\ stderr' = Append(stderr, MismatchMsg)
  /\ exit_status' = <<EXIT_FAILURE>>
  /\ pc' = "exit"
  /\ UNCHANGED <<prog, heap, X, Y, Z, args, z_val_count, cur_z_row, cur_row_val_count,
                 cur_z_col, dot_product, y_row, x_col, fill_i, oob>>

\* the message followed by a return of NULL instead of exit()
Mismatch_returns ==
  /\ prog = "sparse"
  /\ pc = "start"
  /\ num_cols(heap, X) # num_rows(heap, Y)
  /\ stderr' = Append(stderr, MismatchMsg)
  /\ pc' = "done"
  /\ UNCHANGED <<prog, heap, X, Y, Z, args, locals, exit_status, oob>>

\* if (X->num_cols != Y->num_rows) { fprintf(stderr, ...); exit(EXIT_FAILURE); }
Mismatch ==
  /\ prog = "sparse"
  /\ pc = "start"
  /\ num_cols(heap, X) # num_rows(heap, Y)
  /\ stderr' = Append(stderr, MismatchMsg)
  /\ exit_status' = <<EXIT_FAILURE>>
  /\ pc' = "exit"
  /\ UNCHANGED <<prog, heap, X, Y, Z, args, locals, oob>>

\* the declarations of lines 64-76
Enter ==
  /\ prog = "sparse"
  /\ pc = "start"
  /\ num_cols(heap, X) = num_rows(heap, Y)
  /\ z_rows' = num_rows(heap, X)
  /\ z_cols' = num_cols(heap, Y)
  /\ z_val' = Block(scratch_cells(z_rows', z_cols'))
  /\ z_col_ind' = Block(scratch_cells(z_rows', z_cols'))
  /\ z_row_ptr' = StoreB(Block(z_rows' + 1), 0, 0)
  /\ z_val_count' = 0
  /\ cur_z_row' = 0
  /\ pc' = "row"
  /\ UNCHANGED <<prog, heap, X, Y, Z, args, cur_row_val_count, cur_z_col,
                 dot_product, y_row, x_col, fill_i, stderr, exit_status, oob>>

\* for (cur_z_row ...) { int cur_row_val_count = 0; ... and, once the loop is
\* over, Z = init_CSR_matrix(z_val_count, z_rows, z_cols), whose Malloc exits
\* the process when the allocation fails
RowLoop ==
  /\ pc = "row"
  /\ IF cur_z_row < z_rows
       THEN /\ cur_row_val_count' = 0
            /\ cur_z_col' = 0
            /\ pc' = "col"
            /\ UNCHANGED <<heap, Z, fill_i, stderr, exit_status>>
       ELSE \E ok \in BOOLEAN :
              IF ok
                THEN /\ heap' = init_CSR_matrix(heap, z_val_count, z_rows, z_cols)
                     /\ Z' = Len(heap) + 1
                     /\ fill_i' = 0
                     /\ pc' = "copy_val"
                     /\ UNCHANGED <<cur_row_val_count, cur_z_col, stderr, exit_status>>
                ELSE /\ stderr' = Append(stderr, "Malloc")
                     /\ exit_status' = <<EXIT_FAILURE>>
                     /\ pc' = "exit"
                     /\ UNCHANGED <<heap, Z, fill_i, cur_row_val_count, cur_z_col>>
  /\ UNCHANGED <<prog, X, Y, args, z_rows, z_cols, z_val, z_col_ind, z_row_ptr,
                 z_val_count, cur_z_row, dot_product, y_row, x_col, oob>>

\* for (cur_z_col ...) { dot_product = 0; y_row = Y->col_ptr[cur_z_col];
\* x_col = X->row_ptr[cur_z_row]; ... and, once the loop is over,
\* z_row_ptr[cur_z_row + 1] = z_row_ptr[cur_z_row] + cur_row_val_count
ColLoop ==
  /\ pc = "col"
  /\ IF cur_z_col < z_cols
       THEN /\ dot_product' = 0
            /\ y_row' \in Load(heap, col_ptr(heap, Y), cur_z_col)
            /\ x_col' \in Load(heap, row_ptr(heap, X), cur_z_row)
            /\ oob' = oob \cup Outside(heap[col_ptr(heap, Y)], cur_z_col, "Y.col_ptr")
                          \cup Outside(heap[row_ptr(heap, X)], cur_z_row, "X.row_ptr")
            /\ pc' = "x"
            /\ UNCHANGED <<z_row_ptr, cur_z_row>>
       ELSE /\ \E p \in LoadB(z_row_ptr, cur_z_row) :
                 z_row_ptr' = StoreB(z_row_ptr, cur_z_row + 1, next_row_ptr(p, cur_row_val_count))
            /\ oob' = oob \cup Outside(z_row_ptr, cur_z_row + 1, "z_row_ptr")
            /\ cur_z_row' = cur_z_row + 1
            /\ pc' = "row"
            /\ UNCHANGED <<dot_product, y_row, x_col>>
  /\ UNCHANGED <<prog, heap, X, Y, Z, args, z_rows, z_cols, z_val, z_col_ind,
                 z_val_count, cur_row_val_count, cur_z_col, fill_i, stderr,
                 exit_status>>

\* the test x_col < X->row_ptr[cur_z_row + 1] of the inner for loop
XLoop ==
  /\ pc = "x"
  /\ \E e \in Load(heap, row_ptr(heap, X), cur_z_row + 1) :
       pc' = IF x_col < e THEN "while" ELSE "emit"
  /\ oob' = oob \cup Outside(heap[row_ptr(heap, X)], cur_z_row + 1, "X.row_ptr")
  /\ UNCHANGED <<prog, heap, X, Y, Z, args, locals, stderr, exit_status>>

\* one evaluation of the condition of
\* while (Y->row_ind[y_row] < X->col_ind[x_col] && y_row < Y->col_ptr[cur_z_col + 1]) y_row++;
\* the left operand is evaluated first, the right one only when the left holds
WhileStep ==
  /\ pc = "while"
  /\ \E r \in Load(heap, row_ind(heap, Y), y_row),
        c \in Load(heap, col_ind(heap, X), x_col),
        e \in Load(heap, col_ptr(heap, Y), cur_z_col + 1) :
       /\ IF advance(r, c, y_row, e)
            THEN y_row' = y_row + 1 /\ pc' = "while"
            ELSE y_row' = y_row /\ pc' = "brk"
       /\ oob' = oob \cup Outside(heap[row_ind(heap, Y)], y_row, "Y.row_ind")
                     \cup Outside(heap[col_ind(heap, X)], x_col, "X.col_ind")
                     \cup (IF r < c
                             THEN Outside(heap[col_ptr(heap, Y)], cur_z_col + 1, "Y.col_ptr")
                             ELSE {})
  /\ UNCHANGED <<prog, heap, X, Y, Z, args, z_rows, z_cols, z_val, z_col_ind,
                 z_row_ptr, z_val_count, cur_z_row, cur_row_val_count, cur_z_col,
                 dot_product, x_col, fill_i, stderr, exit_status>>

\* if (y_row >= Y->col_ptr[cur_z_col + 1]) break;
\* if (Y->row_ind[y_row] == X->col_ind[x_col]) dot_product += X->val[x_col] * Y->val[y_row];
\* and the x_col++ of the for loop
Accumulate ==
  /\ pc = "brk"
  /\ \E e \in Load(heap, col_ptr(heap, Y), cur_z_col + 1) :
       IF y_row >= e
         THEN /\ pc' = "emit"
              /\ oob' = oob \cup Outside(heap[col_ptr(heap, Y)], cur_z_col + 1, "Y.col_ptr")
              /\ UNCHANGED <<dot_product, x_col>>
         ELSE \E r \in Load(heap, row_ind(heap, Y), y_row),
                 c \in Load(heap, col_ind(heap, X), x_col),
                 xv \in Load(heap, val(heap, X), x_col),
                 yv \in Load(heap, val(heap, Y), y_row) :
                /\ dot_product' = IF r = c THEN dot_product + xv * yv ELSE dot_product
                /\ x_col' = x_col + 1
                /\ pc' = "x"
                /\ oob' = oob \cup Outside(heap[col_ptr(heap, Y)], cur_z_col + 1, "Y.col_ptr")
                              \cup Outside(heap[row_ind(heap, Y)], y_row, "Y.row_ind")
                              \cup Outside(heap[col_ind(heap, X)], x_col, "X.col_ind")
                              \cup (IF r = c
                                      THEN Outside(heap[val(heap, X)], x_col, "X.val")
                                             \cup Outside(heap[val(heap, Y)], y_row, "Y.val")
                                      ELSE {})
  /\ UNCHANGED <<prog, heap, X, Y, Z, args, z_rows, z_cols, z_val, z_col_ind,
                 z_row_ptr, z_val_count, cur_z_row, cur_row_val_count, cur_z_col,
                 y_row, fill_i, stderr, exit_status>>

\* if (dot_product != 0) { z_val[z_val_count] = dot_product;
\* z_col_ind[z_val_count] = cur_z_col; z_val_count++; cur_row_val_count++; }
\* and the cur_z_col++ of the for loop
Emit ==
  /\ pc = "emit"
  /\ IF keep(dot_product)
       THEN /\ z_val' = StoreB(z_val, z_val_count, dot_product)
            /\ z_col_ind' = StoreB(z_col_ind, z_val_count, cur_z_col)
            /\ z_val_count' = z_val_count + 1
            /\ cur_row_val_count' = cur_row_val_count + 1
            /\ oob' = oob \cup Outside(z_val, z_val_count, "z_val")
                          \cup Outside(z_col_ind, z_val_count, "z_col_ind")
       ELSE UNCHANGED <<z_val, z_col_ind, z_val_count, cur_row_val_count, oob>>
  /\ cur_z_col' = cur_z_col + 1
  /\ pc' = "col"
  /\ UNCHANGED <<prog, heap, X, Y, Z, args, z_rows, z_cols, z_row_ptr, cur_z_row,
                 dot_product, y_row, x_col, fill_i, stderr, exit_status>>

\* for (int i = 0; i < z_val_count; i++) { Z->val[i] = z_val[i];
\* Z->col_ind[i] = z_col_ind[i]; }
CopyVal ==
  /\ pc = "copy_val"
  /\ IF fill_i < z_val_count
       THEN /\ \E v \in LoadB(z_val, fill_i), c \in LoadB(z_col_ind, fill_i) :
                 heap' = Store(Store(heap, val(heap, Z), fill_i, v),
                               col_ind(heap, Z), fill_i, c)
            /\ oob' = oob \cup Outside(z_val, fill_i, "z_val")
                          \cup Outside(z_col_ind, fill_i, "z_col_ind")
                          \cup Outside(heap[val(heap, Z)], fill_i, "Z.val")
                          \cup Outside(heap[col_ind(heap, Z)], fill_i, "Z.col_ind")
            /\ fill_i' = fill_i + 1
            /\ pc' = "copy_val"
       ELSE /\ fill_i' = 0
            /\ pc' = "copy_row_ptr"
            /\ UNCHANGED <<heap, oob>>
  /\ UNCHANGED <<prog, X, Y, Z, args, z_rows, z_cols, z_val, z_col_ind, z_row_ptr,
                 z_val_count, cur_z_row, cur_row_val_count, cur_z_col, dot_product,
                 y_row, x_col, stderr, exit_status>>

\* the row pointers copied into X instead of Z
CopyRowPtr_into_X ==
  /\ pc = "copy_row_ptr"
  /\ IF fill_i < z_rows + 1
       THEN /\ \E p \in LoadB(z_row_ptr, fill_i) :
                 heap' = Store(heap, row_ptr(heap, X), fill_i, p)
            /\ fill_i' = fill_i + 1
            /\ pc' = "copy_row_ptr"
       ELSE /\ pc' = "done"
            /\ UNCHANGED <<heap, fill_i>>
  /\ UNCHANGED <<prog, X, Y, Z, args, z_rows, z_cols, z_val, z_col_ind, z_row_ptr,
                 z_val_count, cur_z_row, cur_row_val_count, cur_z_col, dot_product,
                 y_row, x_col, stderr, exit_status, oob>>

\* for (int i = 0; i < z_rows + 1; i++) Z->row_ptr[i] = z_row_ptr[i]; return Z;
CopyRowPtr ==
  /\ pc = "copy_row_ptr"
  /\ IF fill_i < z_rows + 1
       THEN /\ \E p \in LoadB(z_row_ptr, fill_i) :
                 heap' = Store(heap, row_ptr(heap, Z), fill_i, p)
            /\ oob' = oob \cup Outside(z_row_ptr, fill_i, "z_row_ptr")
                          \cup Outside(heap[row_ptr(heap, Z)], fill_i, "Z.row_ptr")
            /\ fill_i' = fill_i + 1
            /\ pc' = "copy_row_ptr"
       ELSE /\ pc' = "done"
            /\ UNCHANGED <<heap, oob, fill_i>>
  /\ UNCHANGED <<prog, X, Y, Z, args, z_rows, z_cols, z_val, z_col_ind, z_row_ptr,
                 z_val_count, cur_z_row, cur_row_val_count, cur_z_col, dot_product,
                 y_row, x_col, stderr, exit_status>>

\* ------------------------------------------------------- matrix_multiply
\* the dense matrix behind an int** of the given shape
Dense2d(h, P, m, k) ==
  [r \in 0 .. (m - 1) |-> [c \in 0 .. (k - 1) |-> h[h[P].mem[r]].mem[c]]]

\* the loop over dot_index (lines 43-47)
RECURSIVE dense_dot(_, _, _, _, _)
dense_dot(A, B, r, c, n) ==
  IF n = 0 THEN 0 ELSE dense_dot(A, B, r, c, n - 1) + A[r][n - 1] * B[n - 1][c]

\* the loops over cur_z_row and cur_z_col (lines 39-51)
dense_product(A, B, x_rows, x_cols, y_cols) ==
  [r \in 0 .. (x_rows - 1) |-> [c \in 0 .. (y_cols - 1) |-> dense_dot(A, B, r, c, x_cols)]]

\* the whole call: the check, init_2d_array (whose Malloc may exit), the loops
matrix_multiply ==
  /\ prog = "dense"
  /\ pc = "start"
  /\ IF args.x_cols # args.y_rows
       THEN /\ stderr' = Append(stderr, MismatchMsg)
            /\ exit_status' = <<EXIT_FAILURE>>
            /\ pc' = "exit"
            /\ UNCHANGED <<heap, Z>>
       ELSE \E ok \in BOOLEAN :
              IF ok
                THEN /\ heap' = new_2d_array(heap,
                                   dense_product(Dense2d(heap, X, args.x_rows, args.x_cols),
                                                 Dense2d(heap, Y, args.y_rows, args.y_cols),
                                                 args.x_rows, args.x_cols, args.y_cols),
                                   args.x_rows, args.y_cols)
                     /\ Z' = Len(heap) + 1
                     /\ pc' = "done"
                     /\ UNCHANGED <<stderr, exit_status>>
                ELSE /\ stderr' = Append(stderr, "Malloc")
                     /\ exit_status' = <<EXIT_FAILURE>>
                     /\ pc' = "exit"
                     /\ UNCHANGED <<heap, Z>>
  /\ UNCHANGED <<prog, X, Y, args, locals, oob>>

\* ------------------------------------------------------- specifications
Compute ==
  \/ Enter
  \/ RowLoop
  \/ ColLoop
  \/ XLoop
  \/ WhileStep
  \/ Accumulate
  \/ Emit
  \/ CopyVal
  \/ CopyRowPtr

Next ==
  \/ Mismatch
  \/ Compute
  \/ matrix_multiply

Spec == Init /\ [][Next]_vars

\* --------------------------------------------------------- dense dumps
At(h, p, i) == h[p].mem[i]

\* print_CSR_matrix, one row: the numbers printed for columns cur_col and up.
\* The source reads R->col_ind[cur_ptr] before it tests cur_ptr against the end
\* of the row; the conjunction is false whenever that test fails, whatever was
\* read, so the test is taken first here.
RECURSIVE print_CSR_row(_, _, _, _, _)
print_CSR_row(h, R, cur_row, cur_col, cur_ptr) ==
  IF cur_col >= num_cols(h, R) THEN <<>>
  ELSE IF cur_ptr < At(h, row_ptr(h, R), cur_row + 1)
            /\ cur_col = At(h, col_ind(h, R), cur_ptr)
         THEN <<At(h, val(h, R), cur_ptr)>>
                \o print_CSR_row(h, R, cur_row, cur_col + 1, cur_ptr + 1)
         ELSE <<0>> \o print_CSR_row(h, R, cur_row, cur_col + 1, cur_ptr)

\* the lines print_CSR_matrix prints, each a sequence of numbers
print_CSR_matrix(h, R) ==
  [r \in 1 .. num_rows(h, R) |->
     print_CSR_row(h, R, r - 1, 0, At(h, row_ptr(h, R), r - 1))]

\* print_CCS_matrix, one cell: the loop over cur_ptr
RECURSIVE print_CCS_cell(_, _, _, _, _, _)
print_CCS_cell(h, R, cur_row, cur_col, cur_ptr, v) ==
  IF cur_ptr < At(h, col_ptr(h, R), cur_col + 1)
       /\ At(h, row_ind(h, R), cur_ptr) <= cur_row
    THEN print_CCS_cell(h, R, cur_row, cur_col, cur_ptr + 1,
                        IF At(h, row_ind(h, R), cur_ptr) = cur_row
                          THEN At(h, val(h, R), cur_ptr) ELSE v)
    ELSE v

print_CCS_matrix(h, R) ==
  [r \in 1 .. num_rows(h, R) |->
     [c \in 1 .. num_cols(h, R) |->
        print_CCS_cell(h, R, r - 1, c - 1, At(h, col_ptr(h, R), c - 1), 0)]]

\* the matrix a dump of m lines of n numbers shows, 0-based
Dense(lines, m, n) ==
  [r \in 0 .. (m - 1) |-> [c \in 0 .. (n - 1) |-> lines[r + 1][c + 1]]]

\* ------------------------------------------------------------ main
\* main of sparse_matrix_multiply.c up to the call: X is 7 x 5 with 6 values,
\* Y is 5 x 6 with 9 values
main_heap ==
  LET x0 == init_CSR_matrix(<<>>, 6, 7, 5)
      x1 == Fill(x0, val(x0, 1), <<2, 4, 3, 1, 6, 2>>, 6)
      x2 == Fill(x1, col_ind(x0, 1), <<0, 3, 2, 0, 1, 4>>, 6)
      x3 == Fill(x2, row_ptr(x0, 1), <<0, 2, 2, 3, 4, 4, 5, 6>>, 8)
      y0 == init_CCS_matrix(x3, 9, 5, 6)
      y1 == Fill(y0, val(y0, 5), <<3, 11, 2, 3, 5, 4, 2, 6, 5>>, 9)
      y2 == Fill(y1, row_ind(y0, 5), <<0, 4, 1, 1, 3, 0, 1, 2, 4>>, 9)
  IN Fill(y2, col_ptr(y0, 5), <<0, 2, 3, 5, 6, 8, 9>>, 7)

InitMain ==
  /\ prog = "sparse"
  /\ heap = main_heap
  /\ X = 1
  /\ Y = 5
  /\ args = NoArgs
  /\ InitRest

SpecMain == InitMain /\ [][Compute]_vars

\* ------------------------------------------------ data-model invariants
\* cells 0 .. n-1 of the block at p have all been written
Written(h, p, n) == \A i \in 0 .. (n - 1) : Defined(h[p], i)

\* the invariants of a compressed matrix with pointer array ptr (one entry per
\* major slice plus one), secondary index array ind (entries below minor) and
\* value array v
ValidCompressed(h, v, ind, ptr, major, minor) ==
  /\ Written(h, ptr, major + 1)
  /\ At(h, ptr, 0) = 0
  /\ \A i \in 0 .. (major - 1) : At(h, ptr, i) <= At(h, ptr, i + 1)
  /\ h[v].cap = At(h, ptr, major)
  /\ h[ind].cap = At(h, ptr, major)
  /\ Written(h, v, At(h, ptr, major))
  /\ Written(h, ind, At(h, ptr, major))
  /\ \A i \in 0 .. (major - 1) :
       \A q \in At(h, ptr, i) .. (At(h, ptr, i + 1) - 1) :
         /\ At(h, ind, q) \in 0 .. (minor - 1)
         /\ q + 1 < At(h, ptr, i + 1) => At(h, ind, q) < At(h, ind, q + 1)

ValidCSR(h, R) ==
  ValidCompressed(h, val(h, R), col_ind(h, R), row_ptr(h, R), num_rows(h, R), num_cols(h, R))

ValidCCS(h, R) ==
  ValidCompressed(h, val(h, R), row_ind(h, R), col_ptr(h, R), num_cols(h, R), num_rows(h, R))

ValidOperands == prog = "sparse" /\ ValidCSR(heap, X) /\ ValidCCS(heap, Y)

Returned == prog = "sparse" /\ pc = "done"

DenseX == Dense(print_CSR_matrix(heap, X), num_rows(heap, X), num_cols(heap, X))
DenseY == Dense(print_CCS_matrix(heap, Y), num_rows(heap, Y), num_cols(heap, Y))
DenseZ == Dense(print_CSR_matrix(heap, Z), num_rows(heap, Z), num_cols(heap, Z))

\* what matrix_multiply computes from the dense forms of the operands
Product ==
  dense_product(DenseX, DenseY, num_rows(heap, X), num_cols(heap, X), num_cols(heap, Y))

\* -------------------------------------------------------------- claims

\* C1: for valid operands, the dense form of the matrix sparse_matrix_multiply
\* returns equals matrix_multiply of the operands' dense forms, cell by cell.
C1_DenseEqualsProduct ==
  (Returned /\ ValidOperands) =>
    /\ num_rows(heap, Z) = num_rows(heap, X)
    /\ num_cols(heap, Z) = num_cols(heap, Y)
    /\ DenseZ = Product

\* a returned product with a non-zero cell, computed in a run that read
\* Y.row_ind past its end
C1_Witness ==
  /\ Returned /\ ValidOperands
  /\ "Y.row_ind" \in oob
  /\ \E r \in 0 .. (z_rows - 1), c \in 0 .. (z_cols - 1) : Product[r][c] # 0

\* C2: with valid operands no read of Y.row_ind, Y.val, X.col_ind or X.val is
\* at an index outside the array.
C2_ReadsInBounds ==
  ValidOperands => oob \cap {"Y.row_ind", "Y.val", "X.col_ind", "X.val"} = {}

\* the inner dimensions of the call disagree
DimensionMismatch ==
  IF prog = "sparse"
    THEN num_cols(heap, X) # num_rows(heap, Y)
    ELSE args.x_cols # args.y_rows

\* C3: a call with mismatched inner dimensions (sparse or dense) goes straight
\* to the error exit: nothing is allocated on the heap, no scratch array is
\* created, no loop variable is touched and no result is produced.
C3_MismatchBeforeWork ==
  [][(pc = "start" /\ DimensionMismatch) =>
       /\ pc' = "exit"
       /\ stderr' = Append(stderr, MismatchMsg)
       /\ heap' = heap
       /\ locals' = locals
       /\ Z' = Z]_vars

C3_Witness ==
  /\ prog = "dense"
  /\ pc = "exit"
  /\ DimensionMismatch
  /\ stderr = <<MismatchMsg>>
  /\ Z = 0

\* the CRS invariants of the result
ZInvariants ==
  /\ ValidCSR(heap, Z)
  /\ At(heap, row_ptr(heap, Z), num_rows(heap, Z)) = z_val_count

\* C4: for valid operands the returned Z satisfies the CRS invariants:
\* row_ptr[0] = 0, row_ptr non-decreasing, row_ptr[m] = number of stored values,
\* col_ind strictly increasing inside each row slice and inside [0, n).
C4_ResultIsValidCSR ==
  (Returned /\ ValidOperands) => ZInvariants

\* a result with two entries in one row
C4_Witness ==
  /\ Returned /\ ValidOperands
  /\ \E r \in 0 .. (z_rows - 1) :
       At(heap, row_ptr(heap, Z), r + 1) >= At(heap, row_ptr(heap, Z), r) + 2

\* the positions of Z that store cell (r, c)
StoredAt(r, c) ==
  {q \in At(heap, row_ptr(heap, Z), r) .. (At(heap, row_ptr(heap, Z), r + 1) - 1) :
     At(heap, col_ind(heap, Z), q) = c}

\* C5: Z stores exactly one entry for each cell whose dot product is non-zero,
\* none for the others, and no stored value is zero.
C5_StoredIffNonZero ==
  (Returned /\ ValidOperands) =>
    /\ \A r \in 0 .. (z_rows - 1), c \in 0 .. (z_cols - 1) :
         Cardinality(StoredAt(r, c)) = IF Product[r][c] # 0 THEN 1 ELSE 0
    /\ \A q \in 0 .. (heap[val(heap, Z)].cap - 1) : At(heap, val(heap, Z), q) # 0

\* cell (r, c) has two non-zero terms of opposite sign
TwoOpposedTerms(r, c) ==
  \E a, b \in 0 .. (num_cols(heap, X) - 1) :
    /\ DenseX[r][a] * DenseY[a][c] > 0
    /\ DenseX[r][b] * DenseY[b][c] < 0

\* a returned product with a cell whose terms cancel only partly
C5_Witness ==
  /\ Returned /\ ValidOperands
  /\ \E r \in 0 .. (z_rows - 1), c \in 0 .. (z_cols - 1) :
       TwoOpposedTerms(r, c) /\ Product[r][c] # 0 /\ StoredAt(r, c) # {}

\* C6: the col_ptr array of a CCS matrix has num_cols + 1 cells, and no write
\* or read of col_ptr[0 .. num_cols] falls outside it.
C6_ColPtrHoldsAllColumns ==
  prog = "sparse" =>
    /\ heap[col_ptr(heap, Y)].cap = num_cols(heap, Y) + 1
    /\ heap[col_ptr(heap, Y)].spill = <<>>
    /\ "Y.col_ptr" \notin oob

\* C7 as stated: in main's scenario row 0 of Z is [6,0,0,8,0,0].
C7_Row0AsStated ==
  Returned => print_CSR_matrix(heap, Z)[1] = <<6, 0, 0, 8, 0, 0>>

\* C7, amended: in main's scenario row 0 of Z is [6,0,20,8,0,0].
C7_Row0 ==
  Returned => print_CSR_matrix(heap, Z)[1] = <<6, 0, 20, 8, 0, 0>>

C7_Witness ==
  /\ Returned
  /\ num_rows(heap, Z) = 7
  /\ num_cols(heap, Z) = 6
  /\ z_val_count >= 3

\* C8 as stated: after a dimension mismatch is reported the process still runs
\* (control is back in the caller).
C8_CallerKeepsRunning ==
  (prog = "sparse" /\ stderr # <<>> /\ stderr[Len(stderr)] = MismatchMsg) =>
    exit_status = <<>>

\* C8, amended: on a dimension mismatch sparse_matrix_multiply writes the
\* message to stderr and ends the process with EXIT_FAILURE; control never
\* returns to the caller (no step follows the exit), and no matrix is changed.
C8_MismatchExits ==
  [][/\ pc # "exit"
     /\ (prog = "sparse" /\ pc = "start" /\ DimensionMismatch) =>
          /\ stderr' = <<MismatchMsg>>
          /\ exit_status' = <<EXIT_FAILURE>>
          /\ pc' = "exit"
          /\ heap' = heap]_vars

C8_Witness ==
  /\ prog = "sparse"
  /\ pc = "exit"
  /\ DimensionMismatch
  /\ stderr = <<MismatchMsg>>
  /\ exit_status = <<EXIT_FAILURE>>

\* the blocks of a compressed matrix: the struct and its three arrays
BlocksOf(h, R) == {R, h[R].mem[0], h[R].mem[1], h[R].mem[2]}

\* C9: no step of sparse_matrix_multiply changes a block of X or Y (struct
\* fields and arrays), on the success path and on the mismatch path, and the
\* blocks of the result are none of the operands' blocks.
C9_OperandsUntouched ==
  [][prog = "sparse" =>
       /\ X' = X /\ Y' = Y
       /\ \A b \in BlocksOf(heap, X) \cup BlocksOf(heap, Y) : heap'[b] = heap[b]
       /\ Z' # 0 =>
            BlocksOf(heap', Z') \cap (BlocksOf(heap', X') \cup BlocksOf(heap', Y')) = {}]_vars

\* a returned result whose arrays have all been written
C9_Witness ==
  /\ Returned
  /\ z_val_count >= 1
  /\ Written(heap, val(heap, Z), z_val_count)
  /\ Written(heap, row_ptr(heap, Z), z_rows + 1)

\* the output cells whose dot product has been tested so far
CellsVisited ==
  IF pc \in {"col", "x", "while", "brk", "emit"}
    THEN cur_z_row * z_cols + cur_z_col
    ELSE cur_z_row * z_cols

\* C10: z_val_count never exceeds the number of output cells visited, hence
\* never z_rows * z_cols; no write to z_val, z_col_ind or z_row_ptr and no
\* access of the copy loops is out of bounds; the arrays of Z have exactly
\* z_val_count cells and end up holding the first z_val_count scratch entries.
C10_ScratchBounds ==
  (prog = "sparse" /\ pc \notin {"start", "exit"}) =>
    /\ z_val_count <= CellsVisited
    /\ CellsVisited <= z_rows * z_cols
    /\ z_val.cap = z_rows * z_cols /\ z_col_ind.cap = z_rows * z_cols
    /\ z_row_ptr.cap = z_rows + 1
    /\ Written(<<z_val>>, 1, z_val_count) /\ Written(<<z_col_ind>>, 1, z_val_count)
    /\ oob \cap {"z_val", "z_col_ind", "z_row_ptr", "Z.val", "Z.col_ind", "Z.row_ptr"} = {}
    /\ pc \in {"copy_val", "copy_row_ptr", "done"} =>
         /\ heap[val(heap, Z)].cap = z_val_count
         /\ heap[col_ind(heap, Z)].cap = z_val_count
         /\ heap[row_ptr(heap, Z)].cap = z_rows + 1
    /\ pc = "done" =>
         /\ \A q \in 0 .. (z_val_count - 1) :
              /\ At(heap, val(heap, Z), q) = z_val.mem[q]
              /\ At(heap, col_ind(heap, Z), q) = z_col_ind.mem[q]
         /\ \A q \in 0 .. z_rows : At(heap, row_ptr(heap, Z), q) = z_row_ptr.mem[q]

\* a returned result that fills the scratch arrays completely
C10_Witness ==
  /\ Returned
  /\ z_val_count = z_rows * z_cols
  /\ z_val_count >= 2

====
